---- MODULE Spec2Model ----
(***************************************************************************)
(* Group-expense settlement engine of Finance-Buddy-Notebook               *)
(* (backend/database.py: record_group_debts and add_debt_tool).            *)
(*                                                                         *)
(* Money.  The code computes with Python floats; the model computes with   *)
(* exact rationals.  Inputs are whole cents (0.01 = 1) and every stored    *)
(* quantity (fair, paid, net) is an integer number of 1/Scale cents, Scale *)
(* being divisible by every divisor the code uses (len(participants),      *)
(* len(creditor_list)).  A proportional share is the fraction              *)
(* ShareNum/ShareDen of a cent; the 0.01 threshold and round(share, 2) are *)
(* evaluated on that fraction, a share of k + 1/2 cents being rounded the  *)
(* way the double nearest to it is.                                        *)
(*                                                                         *)
(* Strings.  A comma-separated string is the sequence of its fields        *)
(* (str.split(",") always yields at least one field, so the empty string   *)
(* is the one-field sequence <<"">>).  A field of a share specification is *)
(* the sequence of its colon-separated pieces.  str.strip, str.lower and   *)
(* float() are tables over the finite alphabet the inputs are drawn from.  *)
(***************************************************************************)
EXTENDS Integers, Sequences, FiniteSets, TLC

\* ------------------------------------------------------------------ bounds
MaxFields == 3     \* fields in the creditors and debtors strings together
MaxTotal == 4      \* total_amount ranges over 1..MaxTotal cents
MaxCalls == 2      \* invocations of the engine in one behaviour
MaxParts == 2      \* fields in a fair_shares / paid_shares string
MaxRows == 4       \* rows of table debts up to which direct tool calls are followed
MaxOps == 3        \* storage operations in one behaviour of the tenants

\* ---------------------------------------------------------- input alphabet
ME_NAME == "Me"

NameFields == {"", "Me", "me", "John", " Sarah"}
SplitModes == {"equal", "Custom", "percent"}
Descriptions == {"dinner"}
Statuses == {"unsettled"}
Users == {"local_user"}

\* str.strip() on the alphabet
Strip(s) ==
    CASE s = " "      -> ""
      [] s = " Sarah" -> "Sarah"
      [] s = " me"    -> "me"
      [] s = "John "  -> "John"
      [] s = " 0.02"  -> "0.02"
      [] OTHER        -> s

\* str.lower() on the alphabet
Lower(s) ==
    CASE s \in {"Me", "ME", "mE", "me"} -> "me"
      [] s = "John"    -> "john"
      [] s = "Sarah"   -> "sarah"
      [] s \in {"Equal", "EQUAL", "equal"}    -> "equal"
      [] s \in {"Custom", "CUSTOM", "custom"} -> "custom"
      [] OTHER         -> s

\* float() on the alphabet, in cents; NaN stands for the ValueError it raises
NaN == -1
Float(s) ==
    CASE s = "0"    -> 0
      [] s = "0.01" -> 1
      [] s = "0.02" -> 2
      [] s = "0.03" -> 3
      [] s = "0.04" -> 4
      [] s = "0.05" -> 5
      [] s = "0.07" -> 7
      [] s = "0.08" -> 8
      [] OTHER      -> NaN

\* code-point order of the names that can be participants (sorted())
Rank(n) ==
    CASE n = ""      -> 0
      [] n = "John"  -> 1
      [] n = "Me"    -> 2
      [] n = "Sarah" -> 3
      [] n = "john"  -> 4
      [] n = "me"    -> 5
      [] n = "sarah" -> 6
      [] OTHER       -> 7

\* ------------------------------------------------------------- arithmetic
RECURSIVE Fact(_)
Fact(n) == IF n <= 1 THEN 1 ELSE n * Fact(n - 1)

People == {Strip(f) : f \in NameFields} \ {""}
MaxDivisor == IF MaxFields > Cardinality(People) THEN MaxFields ELSE Cardinality(People)
Scale == Fact(MaxDivisor)

Abs(x) == IF x < 0 THEN -x ELSE x

\* The whole-cent parts q <= 11 for which the double nearest to q + 1/2 cents
\* lies below it: 0.015, 0.045, 0.075, 0.105.  No double is an exact tie, so
\* round(x, 2) takes such a share down and every other half cent up.
HalfCentBelow == {1, 4, 7, 10}

\* round(share, 2) in cents, share = num/den cents
Round(num, den) ==
    LET q == num \div den
        r == num % den
    IN  IF 2 * r < den THEN q
        ELSE IF 2 * r > den THEN q + 1
        ELSE IF q \in HalfCentBelow THEN q ELSE q + 1

Range(s) == {s[i] : i \in 1..Len(s)}

RECURSIVE SumOver(_, _)
SumOver(f, S) ==
    IF S = {} THEN 0
    ELSE LET x == CHOOSE y \in S : TRUE IN f[x] + SumOver(f, S \ {x})

\* sorted(set): the elements of S in increasing code-point order
RECURSIVE sorted(_)
sorted(S) ==
    IF S = {} THEN <<>>
    ELSE LET m == CHOOSE x \in S : \A y \in S : Rank(x) <= Rank(y)
         IN  <<m>> \o sorted(S \ {m})

\* ------------------------------------------------- 1) participant lists
\* normalize_name comparing n itself, not n.lower(), with "me"
normalize_name_NoLower(n) == IF n = "me" THEN ME_NAME ELSE n

normalize_name(n) == IF Lower(n) = "me" THEN ME_NAME ELSE n

\* [normalize_name(c.strip()) for c in s.split(",") if c.strip()]
ParseNames(fields) ==
    LET kept == SelectSeq(fields, LAMBDA f : Strip(f) # "")
    IN  [i \in 1..Len(kept) |-> normalize_name(Strip(kept[i]))]

\* creditor_list whose default payer is spelled "me"
creditor_list_LowercaseDefault(a) ==
    LET l == ParseNames(a.creditors)
    IN  IF l = <<>> THEN <<"me">> ELSE l

creditor_list(a) ==
    LET l == ParseNames(a.creditors)
    IN  IF l = <<>> THEN <<ME_NAME>> ELSE l

debtor_list(a) == ParseNames(a.debtors)

participantSet(a) == Range(creditor_list(a) \o debtor_list(a))

participants(a) == sorted(participantSet(a))

\* --------------------------------------------- share specifications
EmptyShares == << <<"">> >>

\* `if not fair_shares` / `if paid_shares`: truth value of the raw string
IsEmptyShares(spec) == spec = EmptyShares

\* a field whose strip() is empty is skipped
IsBlankPart(part) == Len(part) = 1 /\ Strip(part[1]) = ""

\* parts = [x.strip() for x in spec.split(",") if x.strip()]
ShareParts(spec) == SelectSeq(spec, LAMBDA part : ~IsBlankPart(part))

\* name, val = [x.strip() for x in part.split(":", 1)]; float(val)
\* raises ValueError when there is no colon or the value is not a number
PartRaises(part) == Len(part) # 2 \/ Float(Strip(part[2])) = NaN

ShareSpecRaises(spec) ==
    \E i \in 1..Len(ShareParts(spec)) : PartRaises(ShareParts(spec)[i])

\* the dict built by the parsing loop: a later entry overwrites an earlier one
ShareDict(spec) ==
    LET parts == ShareParts(spec)
        keys  == {Strip(parts[i][1]) : i \in 1..Len(parts)}
        last(k) == CHOOSE i \in 1..Len(parts) :
                      /\ Strip(parts[i][1]) = k
                      /\ \A j \in (i + 1)..Len(parts) : Strip(parts[j][1]) # k
    IN  [k \in keys |-> Float(Strip(parts[last(k)][2])) * Scale]

\* dict.get(k, 0.0) and defaultdict(float)[k]
Get(d, k) == IF k \in DOMAIN d THEN d[k] ELSE 0

\* ------------------------------------------------------- 2) fair shares
\* fair dividing by the number of list entries, not of distinct participants
fair_PerListEntry(a) ==
    IF Lower(a.split_mode) = "equal"
    THEN [p \in participantSet(a) |->
             (a.total_amount * Scale) \div Len(creditor_list(a) \o debtor_list(a))]
    ELSE ShareDict(a.fair_shares)

\* fair whose custom shares are parts of total_amount
fair_TimesTotal(a) ==
    IF Lower(a.split_mode) = "equal"
    THEN [p \in participantSet(a) |->
             (a.total_amount * Scale) \div Cardinality(participantSet(a))]
    ELSE [k \in DOMAIN ShareDict(a.fair_shares) |->
             ShareDict(a.fair_shares)[k] * a.total_amount]

fair(a) ==
    IF Lower(a.split_mode) = "equal"
    THEN [p \in participantSet(a) |->
             (a.total_amount * Scale) \div Cardinality(participantSet(a))]
    ELSE ShareDict(a.fair_shares)

\* ------------------------------------------------------- 3) paid amounts
\* paid whose default ignores the split mode: the creditors paid it all
paid_CreditorsAlways(a) ==
    IF ~IsEmptyShares(a.paid_shares) THEN ShareDict(a.paid_shares)
    ELSE [c \in Range(creditor_list(a)) |->
             (a.total_amount * Scale) \div Len(creditor_list(a))]

\* paid that starts from the creditors' equal parts and lets paid_shares
\* overwrite the entries it names
paid_DefaultsUnderShares(a) ==
    LET given == IF IsEmptyShares(a.paid_shares) THEN <<>> ELSE ShareDict(a.paid_shares)
        parts == [c \in Range(creditor_list(a)) |->
                     (a.total_amount * Scale) \div Len(creditor_list(a))]
    IN  IF IsEmptyShares(a.paid_shares) /\ Lower(a.split_mode) # "equal"
        THEN [p \in participantSet(a) |-> Get(fair(a), p)]
        ELSE [k \in DOMAIN given \cup DOMAIN parts |->
                 IF k \in DOMAIN given THEN given[k] ELSE parts[k]]

paid(a) ==
    IF ~IsEmptyShares(a.paid_shares) THEN ShareDict(a.paid_shares)
    ELSE IF Lower(a.split_mode) = "equal"
    THEN [c \in Range(creditor_list(a)) |->
             (a.total_amount * Scale) \div Len(creditor_list(a))]
    ELSE [p \in participantSet(a) |-> Get(fair(a), p)]

\* ------------------------------------------------------ 4) net positions
net(a) ==
    LET f  == fair(a)
        pd == paid(a)
    IN  [p \in participantSet(a) |-> Get(pd, p) - Get(f, p)]

\* the operators below take the dict net of one invocation as nt
net_me(nt) == Get(nt, ME_NAME)

\* abs(net_me) < 1e-6 (net_me counts 1/Scale cents, i.e. 0.01/Scale units)
Settled(nt) == Abs(net_me(nt)) * 10000 < Scale

total_owing(nt) ==
    SumOver([p \in DOMAIN nt |-> -nt[p]], {p \in DOMAIN nt : nt[p] < 0})

total_credit(nt) ==
    SumOver(nt, {p \in DOMAIN nt : nt[p] > 0})

\* ------------------------------------------------------ returned values
Result(tag, msg, detail, n) == [tag |-> tag, msg |-> msg, detail |-> detail, n |-> n]

NoResult         == Result("NONE", "", "", 0)
Proceed          == Result("PROCEED", "", "", 0)
InfoNotInvolved  == Result("INFO", "Me is not part of this transaction; nothing recorded.", "", 0)
InfoSettled      == Result("INFO", "Me is already settled; no debts recorded.", "", 0)
InfoNoOneOwes    == Result("INFO", "No one owes Me after balancing.", "", 0)
InfoMeOwesNoOne  == Result("INFO", "Me owes no one after balancing.", "", 0)
ErrorNoFairSpec  == Result("ERROR", "fair_shares is required for split_mode='custom'.", "", 0)
ErrorSplitMode   == Result("ERROR", "split_mode must be 'equal' or 'custom'.", "", 0)
ErrorNoShare(p)  == Result("ERROR", "No fair share specified for participant in fair_shares.", p, 0)
Success(n)       == Result("SUCCESS", "Recorded debt edges involving Me", "", n)
\* an exception that leaves record_group_debts (nothing in it catches one)
Raised(what)     == Result("EXCEPTION", what, "", 0)

\* FairCheck with the membership test made after the validation
FairCheck_MembershipLast(a) ==
    IF Lower(a.split_mode) \notin {"equal", "custom"} THEN ErrorSplitMode
    ELSE IF Lower(a.split_mode) = "custom" /\ IsEmptyShares(a.fair_shares)
         THEN ErrorNoFairSpec
    ELSE IF Lower(a.split_mode) = "custom" /\ ShareSpecRaises(a.fair_shares)
         THEN Raised("ValueError")
    ELSE IF ME_NAME \notin participantSet(a) THEN InfoNotInvolved
    ELSE IF Lower(a.split_mode) = "equal" THEN Proceed
    ELSE LET missing == SelectSeq(participants(a),
                                  LAMBDA p : p \notin DOMAIN ShareDict(a.fair_shares))
         IN  IF missing # <<>> THEN ErrorNoShare(Head(missing)) ELSE Proceed

\* membership test and fair-share validation
FairCheck(a) ==
    IF ME_NAME \notin participantSet(a) THEN InfoNotInvolved
    ELSE IF Lower(a.split_mode) = "equal" THEN Proceed
    ELSE IF Lower(a.split_mode) = "custom" THEN
        IF IsEmptyShares(a.fair_shares) THEN ErrorNoFairSpec
        ELSE IF ShareSpecRaises(a.fair_shares) THEN Raised("ValueError")
        ELSE LET missing == SelectSeq(participants(a),
                                      LAMBDA p : p \notin DOMAIN ShareDict(a.fair_shares))
             IN  IF missing # <<>> THEN ErrorNoShare(Head(missing)) ELSE Proceed
    ELSE ErrorSplitMode

\* Precheck returning early only when a total is negative
Precheck_StrictTotals(a) ==
    LET fc == FairCheck(a)
    IN
    IF fc # Proceed THEN fc
    ELSE IF ~IsEmptyShares(a.paid_shares) /\ ShareSpecRaises(a.paid_shares)
         THEN Raised("ValueError")
    ELSE LET nt == net(a)
         IN  IF Settled(nt) THEN InfoSettled
             ELSE IF net_me(nt) > 0 /\ total_owing(nt) < 0 THEN InfoNoOneOwes
             ELSE IF net_me(nt) < 0 /\ total_credit(nt) < 0 THEN InfoMeOwesNoOne
             ELSE Proceed

\* everything up to the first add_debt_tool call
Precheck(a) ==
    LET fc == FairCheck(a)
    IN
    IF fc # Proceed THEN fc
    ELSE IF ~IsEmptyShares(a.paid_shares) /\ ShareSpecRaises(a.paid_shares)
         THEN Raised("ValueError")
    ELSE LET nt == net(a)
         IN  IF Settled(nt) THEN InfoSettled
             ELSE IF net_me(nt) > 0 /\ total_owing(nt) <= 0 THEN InfoNoOneOwes
             ELSE IF net_me(nt) < 0 /\ total_credit(nt) <= 0 THEN InfoMeOwesNoOne
             ELSE Proceed

\* ------------------------------------------------- 5) edge generation
\* ShareNum charging every debtor their own deficit
ShareNum_OwnDeficit(nt, p) ==
    IF net_me(nt) > 0 THEN total_owing(nt) * (-nt[p]) ELSE (-net_me(nt)) * nt[p]

\* share_to_me / share_from_me of participant p, as the fraction
\* ShareNum / ShareDen of a cent
ShareNum(nt, p) ==
    IF net_me(nt) > 0 THEN net_me(nt) * (-nt[p]) ELSE (-net_me(nt)) * nt[p]

ShareDen(nt) ==
    (IF net_me(nt) > 0 THEN total_owing(nt) ELSE total_credit(nt)) * Scale

\* AboveThreshold with the threshold at 0.03
AboveThreshold_ThreeCents(num, den) == num > 3 * den

\* AboveThreshold testing share > 0 instead
AboveThreshold_Zero(num, den) == num > 0

\* share > 0.01
AboveThreshold(num, den) == num > den

\* Counterparty looking for deficits in both cases
Counterparty_DeficitOnly(nt, p) ==
    /\ p # ME_NAME
    /\ nt[p] < 0

\* the participants the loop of the taken case considers
Counterparty(nt, p) ==
    /\ p # ME_NAME
    /\ IF net_me(nt) > 0 THEN nt[p] < 0 ELSE nt[p] > 0

\* Edge with the debtor of case B written as p instead of ME_NAME
Edge_WrongDebtor(a, nt, p) ==
    LET amt == Round(ShareNum(nt, p), ShareDen(nt))
    IN  IF net_me(nt) > 0
        THEN [debtor |-> p, creditor |-> ME_NAME, amount |-> amt,
              description |-> a.description, status |-> a.status]
        ELSE [debtor |-> p, creditor |-> p, amount |-> amt,
              description |-> a.description, status |-> a.status]

\* the keyword arguments of the add_debt_tool call made for participant p
Edge(a, nt, p) ==
    LET amt == Round(ShareNum(nt, p), ShareDen(nt))
    IN  IF net_me(nt) > 0
        THEN [debtor |-> p, creditor |-> ME_NAME, amount |-> amt,
              description |-> a.description, status |-> a.status]
        ELSE [debtor |-> ME_NAME, creditor |-> p, amount |-> amt,
              description |-> a.description, status |-> a.status]

\* the add_debt_tool calls of one invocation, in loop order
Edges(a) ==
    LET nt  == net(a)
        den == ShareDen(nt)
        who == SelectSeq(participants(a),
                         LAMBDA p : /\ Counterparty(nt, p)
                                    /\ AboveThreshold(ShareNum(nt, p), den))
    IN  [i \in 1..Len(who) |-> Edge(a, nt, who[i])]

\* --------------------------------------------------- 6) the debt sink
\* What the storage layer does during one add_debt_tool call:
\*   "ok"        the INSERT is executed and committed
\*   "db_error"  adapter.execute raises (caught by add_debt_tool)
\*   "no_adapter" get_adapter() raises, before the try block
SinkOutcomes == {"ok", "db_error", "no_adapter"}

\* add_debt_tool that skips the INSERT when the ledger holds an equal row
add_debt_tool_Dedup(l, uid, e, o) ==
    LET row == [debtor |-> Strip(e.debtor), creditor |-> Strip(e.creditor),
                amount |-> e.amount, description |-> e.description,
                status |-> e.status, user_id |-> uid]
    IN  IF e.amount <= 0 THEN [ret |-> "ERROR", ledger |-> l]
        ELSE IF o = "no_adapter" THEN [ret |-> "EXCEPTION", ledger |-> l]
        ELSE IF o = "db_error" THEN [ret |-> "ERROR", ledger |-> l]
        ELSE [ret |-> "SUCCESS",
              ledger |-> IF row \in Range(l) THEN l ELSE Append(l, row)]

\* add_debt_tool whose failure undoes the insert made before it
add_debt_tool_Rollback(l, uid, e, o) ==
    LET undone == IF l = <<>> THEN l ELSE SubSeq(l, 1, Len(l) - 1)
    IN  IF e.amount <= 0 THEN [ret |-> "ERROR", ledger |-> l]
        ELSE IF o = "no_adapter" THEN [ret |-> "EXCEPTION", ledger |-> undone]
        ELSE IF o = "db_error" THEN [ret |-> "ERROR", ledger |-> undone]
        ELSE [ret |-> "SUCCESS",
              ledger |-> Append(l, [debtor |-> Strip(e.debtor), creditor |-> Strip(e.creditor),
                                    amount |-> e.amount, description |-> e.description,
                                    status |-> e.status, user_id |-> uid])]

\* add_debt_tool that adds the amount to an unsettled row of the same pair
add_debt_tool_Upsert(l, uid, e, o) ==
    LET same(r) == /\ r.debtor = Strip(e.debtor) /\ r.creditor = Strip(e.creditor)
                   /\ r.user_id = uid /\ r.status = e.status
        hit == {i \in 1..Len(l) : same(l[i])}
    IN  IF e.amount <= 0 THEN [ret |-> "ERROR", ledger |-> l]
        ELSE IF o = "no_adapter" THEN [ret |-> "EXCEPTION", ledger |-> l]
        ELSE IF o = "db_error" THEN [ret |-> "ERROR", ledger |-> l]
        ELSE IF hit # {}
        THEN [ret |-> "SUCCESS",
              ledger |-> [i \in 1..Len(l) |->
                            IF i \in hit THEN [l[i] EXCEPT !.amount = @ + e.amount] ELSE l[i]]]
        ELSE [ret |-> "SUCCESS",
              ledger |-> Append(l, [debtor |-> Strip(e.debtor), creditor |-> Strip(e.creditor),
                                    amount |-> e.amount, description |-> e.description,
                                    status |-> e.status, user_id |-> uid])]

\* add_debt_tool without the check of the amount
add_debt_tool_NoCheck(l, uid, e, o) ==
    IF o = "no_adapter" THEN [ret |-> "EXCEPTION", ledger |-> l]
    ELSE IF o = "db_error" THEN [ret |-> "ERROR", ledger |-> l]
    ELSE [ret |-> "SUCCESS",
          ledger |-> Append(l, [debtor |-> Strip(e.debtor), creditor |-> Strip(e.creditor),
                                amount |-> e.amount, description |-> e.description,
                                status |-> e.status, user_id |-> uid])]

\* add_debt_tool on ledger l in the context of user uid; e carries the call's
\* arguments.  ret is the returned string's prefix, or EXCEPTION.
add_debt_tool(l, uid, e, o) ==
    IF e.amount <= 0 THEN [ret |-> "ERROR", ledger |-> l]
    ELSE IF o = "no_adapter" THEN [ret |-> "EXCEPTION", ledger |-> l]
    ELSE IF o = "db_error" THEN [ret |-> "ERROR", ledger |-> l]
    ELSE [ret |-> "SUCCESS",
          ledger |-> Append(l, [debtor |-> Strip(e.debtor), creditor |-> Strip(e.creditor),
                                amount |-> e.amount, description |-> e.description,
                                status |-> e.status, user_id |-> uid])]

\* ------------------------------------------------------------- requests
NameStrings == UNION {[1..n -> NameFields] : n \in 1..(MaxFields - 1)}

ShareFields ==
    { <<"">>, <<"Me", " 0.02">>, <<"Me", "0.04">>, <<"John", "0.01">>,
      <<"me", "0.01">>, <<"John", "abc">>, <<"Sarah">> }

ShareStrings == UNION {[1..n -> ShareFields] : n \in 1..MaxParts}

Request(cs, ds, t, m, fs, ps) ==
    [creditors |-> cs, debtors |-> ds, total_amount |-> t,
     description |-> CHOOSE d \in Descriptions : TRUE,
     status |-> CHOOSE st \in Statuses : TRUE,
     split_mode |-> m, fair_shares |-> fs, paid_shares |-> ps]

\* every creditors / debtors string, equal split, no share specification
NamePairs ==
    {cd \in NameStrings \X NameStrings : Len(cd[1]) + Len(cd[2]) <= MaxFields}

NameRequests ==
    {Request(cd[1], cd[2], t, "equal", EmptyShares, EmptyShares) :
        cd \in NamePairs, t \in 1..MaxTotal}

\* a few groups, every split mode, one share specification
ShareCreditors == { <<"Me">>, <<"John">> }
ShareDebtors   == { <<"John">>, <<"me", " Sarah">> }
ShareTotals    == {2, MaxTotal}

FairRequests ==
    {Request(cs, ds, t, m, fs, EmptyShares) :
        cs \in ShareCreditors, ds \in ShareDebtors, t \in ShareTotals,
        m \in SplitModes, fs \in ShareStrings}

PaidRequests ==
    {Request(cs, ds, t, m, EmptyShares, ps) :
        cs \in ShareCreditors, ds \in ShareDebtors, t \in ShareTotals,
        m \in SplitModes, ps \in ShareStrings}

\* one group, custom split, both share specifications
BothRequests ==
    {Request(<<"Me">>, <<"John">>, MaxTotal, "Custom", fs, <<p>>) :
        fs \in ShareStrings, p \in ShareFields}

\* a blank creditors string, every split mode, a one-field share specification
BlankRequests ==
    {Request(<<" ">>, ds, t, m, sp[1], sp[2]) :
        ds \in ShareDebtors, t \in ShareTotals, m \in SplitModes,
        sp \in {<< <<f>>, EmptyShares >> : f \in ShareFields}
                  \cup {<< EmptyShares, <<f>> >> : f \in ShareFields}}

\* two-person groups with every spelling of the self alias
CaseFields == {"Me", "me", "ME", "mE", "John"}

CaseRequests ==
    {Request(<<c>>, <<d>>, t, "equal", EmptyShares, EmptyShares) :
        c \in CaseFields, d \in CaseFields, t \in 1..MaxTotal}

\* Me owing two payers: larger totals, default and explicit paid amounts
PairPaid ==
    { EmptyShares,
      << <<"John", "0.08">>, <<"Sarah", "0.07">> >>,
      << <<"John", "0.05">>, <<"Sarah", "0.04">> >> }

PairRequests ==
    {Request(<<"John", " Sarah">>, <<"me">>, t, "equal", EmptyShares, ps) :
        t \in {9, 12}, ps \in PairPaid}

Requests ==
    NameRequests \cup FairRequests \cup PaidRequests \cup BothRequests
        \cup BlankRequests \cup CaseRequests \cup PairRequests

\* ---------------------------------------------------------------- state
VARIABLES
    args,         \* the arguments of the request under study
    user_id_ctx,  \* the request context's user id (db_adapters.user_id_ctx)
    ledger,       \* the rows of table debts, in insertion (id) order
    pc,           \* "idle": no call in progress; "loop": inside an edge loop
    pending,      \* the add_debt_tool calls the running loop has still to make
    calls_made,   \* the local counter of record_group_debts
    result,       \* what the last finished call returned (or raised)
    emitted,      \* the add_debt_tool calls made so far by the current / last call
    sink,         \* what the storage layer did for each of them
    calls,        \* invocations started so far
    mark,         \* Len(ledger) when the current / last call started
    prev,         \* the same facts about the call before it
    reply,        \* what the last directly called tool or endpoint returned
    tasks,        \* the record_group_debts calls running in other request contexts
    transactions, \* the rows of table transactions, in insertion order
    categories,   \* the rows of table categories
    user_settings,\* the rows of table user_settings
    solo,         \* the tables as they would be had only one user acted
    cloud,        \* the tables of the cloud store (the others are the local store)
    request       \* the HTTP request served last

engine == <<args, user_id_ctx, ledger, pc, pending, calls_made, result,
            emitted, sink, calls, mark, prev>>

store == <<transactions, categories, user_settings, solo, cloud, request>>

vars == <<args, user_id_ctx, ledger, pc, pending, calls_made, result,
          emitted, sink, calls, mark, prev,
          reply, tasks, transactions, categories, user_settings, solo, cloud, request>>

NoCall == [result |-> NoResult, emitted |-> <<>>, sink |-> <<>>, mark |-> 0]

NoReply == [status |-> "NONE", body |-> "", touched |-> FALSE]

\* the categories init_db seeds for every user (user_id NULL): two of the seven
NoUser == "NULL"
DefaultCategories ==
    << [name |-> "Dining", budget |-> 200, user_id |-> NoUser],
       [name |-> "Groceries", budget |-> 300, user_id |-> NoUser] >>

Tables(t, c, u, d) == [transactions |-> t, categories |-> c, user_settings |-> u, debts |-> d]

NoRequest == [endpoint |-> "", mode |-> "local", token |-> "none"]

\* no other request, the freshly initialised tables
Quiet ==
    /\ reply = NoReply
    /\ tasks = <<>>
    /\ transactions = <<>>
    /\ categories = DefaultCategories
    /\ user_settings = <<>>
    /\ solo = Tables(<<>>, DefaultCategories, <<>>, <<>>)
    /\ cloud = Tables(<<>>, DefaultCategories, <<>>, <<>>)
    /\ request = NoRequest

Init ==
    /\ args \in Requests
    /\ user_id_ctx \in Users
    /\ ledger = <<>>
    /\ pc = "idle"
    /\ pending = <<>>
    /\ calls_made = 0
    /\ result = NoResult
    /\ emitted = <<>>
    /\ sink = <<>>
    /\ calls = 0
    /\ mark = 0
    /\ prev = NoCall
    /\ Quiet

\* record_group_debts(**args) from its first line to its first add_debt_tool
\* call, or to its return when it makes none
Invoke ==
    /\ pc = "idle"
    /\ calls < MaxCalls
    /\ calls' = calls + 1
    /\ prev' = [result |-> result, emitted |-> emitted, sink |-> sink, mark |-> mark]
    /\ mark' = Len(ledger)
    /\ emitted' = <<>>
    /\ sink' = <<>>
    /\ calls_made' = 0
    /\ LET early == Precheck(args)
           edges == Edges(args)
       IN  IF early # Proceed
           THEN /\ result' = early
                /\ pending' = <<>>
                /\ pc' = "idle"
           ELSE IF edges = <<>>
           THEN /\ result' = Success(0)
                /\ pending' = <<>>
                /\ pc' = "idle"
           ELSE /\ result' = NoResult
                /\ pending' = edges
                /\ pc' = "loop"
    /\ UNCHANGED <<args, user_id_ctx, ledger, reply, tasks>>
    /\ UNCHANGED store

\* one add_debt_tool call of the loop, and the rest of record_group_debts up
\* to the next one (or to the return after the last)
AddDebt ==
    /\ pc = "loop"
    /\ pending # <<>>
    /\ \E o \in SinkOutcomes :
        LET e == Head(pending)
            r == add_debt_tool(ledger, user_id_ctx, e, o)
        IN  /\ ledger' = r.ledger
            /\ emitted' = Append(emitted, e)
            /\ sink' = Append(sink, o)
            /\ IF r.ret = "EXCEPTION"
               THEN /\ result' = Raised("AdapterError")
                    /\ pending' = <<>>
                    /\ calls_made' = calls_made
                    /\ pc' = "idle"
               ELSE /\ calls_made' = calls_made + 1
                    /\ pending' = Tail(pending)
                    /\ IF Tail(pending) = <<>>
                       THEN /\ result' = Success(calls_made + 1)
                            /\ pc' = "idle"
                       ELSE /\ result' = result
                            /\ pc' = "loop"
    /\ UNCHANGED <<args, user_id_ctx, calls, mark, prev, reply, tasks>>
    /\ UNCHANGED store

Next == Invoke \/ AddDebt

Spec == Init /\ [][Next]_vars

\* ------------------------------------------- the engine on a used ledger
\* debts recorded before the request under study
OldDebtToMe ==
    [debtor |-> "John", creditor |-> "Me", amount |-> 5, description |-> "taxi",
     status |-> "unsettled", user_id |-> "local_user"]

OldDebtFromMe ==
    [debtor |-> "Me", creditor |-> "John", amount |-> 3, description |-> "taxi",
     status |-> "unsettled", user_id |-> "local_user"]

PriorLedgers ==
    { <<>>, <<OldDebtToMe>>, <<OldDebtFromMe>>, <<OldDebtFromMe, OldDebtToMe>> }

LedgerRequests ==
    {Request(<<"Me">>, <<"John">>, t, "equal", EmptyShares, EmptyShares) : t \in {2, MaxTotal}}
        \cup {Request(<<"John">>, <<"me">>, t, "equal", EmptyShares, EmptyShares) : t \in {2, MaxTotal}}
        \cup {Request(<<"Me">>, <<"John", " Sarah">>, MaxTotal, "equal", EmptyShares, EmptyShares)}

\* the arguments of add_debt_tool calls made directly (by the agent or a test)
DirectDebts ==
    {[debtor |-> "John ", creditor |-> "Me", amount |-> amt,
      description |-> "dinner", status |-> "unsettled"] : amt \in {-1, 0, 2}}

LedgerInit ==
    /\ args \in LedgerRequests
    /\ user_id_ctx \in Users
    /\ ledger \in PriorLedgers
    /\ pc = "idle"
    /\ pending = <<>>
    /\ calls_made = 0
    /\ result = NoResult
    /\ emitted = <<>>
    /\ sink = <<>>
    /\ calls = 0
    /\ mark = 0
    /\ prev = NoCall
    /\ Quiet

\* add_debt_tool(**e) called on its own
DirectAddDebt ==
    /\ pc = "idle"
    /\ Len(ledger) < MaxRows
    /\ \E e \in DirectDebts, o \in SinkOutcomes :
          LET r == add_debt_tool(ledger, user_id_ctx, e, o)
          IN  /\ ledger' = r.ledger
              /\ reply' = [status |-> r.ret,
                           body |-> IF e.amount <= 0 THEN "add_debt_tool(amount <= 0)"
                                    ELSE "add_debt_tool(amount > 0)",
                           touched |-> r.ledger # ledger]
    /\ UNCHANGED <<args, user_id_ctx, pc, pending, calls_made, result,
                   emitted, sink, calls, mark, prev, tasks>>
    /\ UNCHANGED store

\* execute_sql_update_tool(query, params): refused, nothing is executed
ExecuteSqlUpdate ==
    /\ pc = "idle"
    /\ reply' = [status |-> "error",
                 body |-> "Raw SQL updates are disabled in multi-user mode for safety.",
                 touched |-> FALSE]
    /\ UNCHANGED <<args, user_id_ctx, ledger, pc, pending, calls_made, result,
                   emitted, sink, calls, mark, prev, tasks>>
    /\ UNCHANGED store

LedgerNext == Invoke \/ AddDebt \/ DirectAddDebt \/ ExecuteSqlUpdate

LedgerSpec == LedgerInit /\ [][LedgerNext]_vars

\* --------------------------------- two requests in their own contexts
\* the identities the two requests authenticate as
TaskUsers == <<"user_A", "user_B">>

TaskRequests ==
    { Request(<<"Me">>, <<"John">>, MaxTotal, "equal", EmptyShares, EmptyShares),
      Request(<<"Me">>, <<"John", " Sarah">>, MaxTotal, "equal", EmptyShares, EmptyShares),
      Request(<<"John">>, <<"me">>, MaxTotal, "equal", EmptyShares, EmptyShares) }

\* a request that has not reached its endpoint body: its context holds the
\* default of user_id_ctx
NewTask(u, a) ==
    [user |-> u, ctx |-> "local_user", args |-> a, pc |-> "new",
     pending |-> <<>>, emitted |-> <<>>, sink |-> <<>>]

\* get_user_context() reading the value the latest request set
get_user_context_Shared(tk, i) ==
    LET set == {j \in 1..Len(tk) : tk[j].pc # "new"}
    IN  IF set = {} THEN "local_user"
        ELSE tk[CHOOSE j \in set : \A k \in set : k <= j].ctx

\* get_user_context() evaluated in the context of request i
get_user_context(tk, i) == tk[i].ctx

ConcurrentInit ==
    /\ args \in {Request(<<"Me">>, <<"John">>, MaxTotal, "equal", EmptyShares, EmptyShares)}
    /\ user_id_ctx \in Users
    /\ ledger = <<>>
    /\ pc = "idle"
    /\ pending = <<>>
    /\ calls_made = 0
    /\ result = NoResult
    /\ emitted = <<>>
    /\ sink = <<>>
    /\ calls = 0
    /\ mark = 0
    /\ prev = NoCall
    /\ reply = NoReply
    /\ tasks \in {<<NewTask(TaskUsers[1], a), NewTask(TaskUsers[2], b)>> :
                      a \in TaskRequests, b \in TaskRequests}
    /\ transactions = <<>>
    /\ categories = DefaultCategories
    /\ user_settings = <<>>
    /\ solo = Tables(<<>>, DefaultCategories, <<>>, <<>>)
    /\ cloud = Tables(<<>>, DefaultCategories, <<>>, <<>>)
    /\ request = NoRequest

\* request i: set_user_context(user_id) in the endpoint, then
\* record_group_debts up to its first add_debt_tool call
TaskBegin(i) ==
    /\ tasks[i].pc = "new"
    /\ LET edges == IF Precheck(tasks[i].args) # Proceed THEN <<>>
                    ELSE Edges(tasks[i].args)
       IN  tasks' = [tasks EXCEPT ![i].ctx = tasks[i].user,
                                  ![i].pending = edges,
                                  ![i].pc = IF edges = <<>> THEN "done" ELSE "loop"]
    /\ UNCHANGED <<args, user_id_ctx, ledger, pc, pending, calls_made, result,
                   emitted, sink, calls, mark, prev, reply>>
    /\ UNCHANGED store

\* request i: one add_debt_tool call of its loop
TaskAddDebt(i) ==
    /\ tasks[i].pc = "loop"
    /\ \E o \in SinkOutcomes :
          LET e == Head(tasks[i].pending)
              r == add_debt_tool(ledger, get_user_context(tasks, i), e, o)
              rest == IF r.ret = "EXCEPTION" THEN <<>> ELSE Tail(tasks[i].pending)
          IN  /\ ledger' = r.ledger
              /\ tasks' = [tasks EXCEPT ![i].emitted = Append(@, e),
                                         ![i].sink = Append(@, o),
                                         ![i].pending = rest,
                                         ![i].pc = IF rest = <<>> THEN "done" ELSE "loop"]
    /\ UNCHANGED <<args, user_id_ctx, pc, pending, calls_made, result,
                   emitted, sink, calls, mark, prev, reply>>
    /\ UNCHANGED store

ConcurrentNext ==
    \/ \E i \in 1..Len(TaskUsers) : TaskBegin(i)
    \/ \E i \in 1..Len(TaskUsers) : TaskAddDebt(i)

ConcurrentSpec == ConcurrentInit /\ [][ConcurrentNext]_vars

\* ------------------------------------------------ the tables and two users
\* Tables are records T = Tables(transactions, categories, user_settings,
\* debts); a row's id is its position.  Every operation runs in the context
\* of user u and returns [ret, tables].  Amounts are whole currency units.
TenantUsers == {"user_A", "user_B"}
Observer == "user_B"

SumSeq(sq, val(_), keep(_)) ==
    SumOver([i \in 1..Len(sq) |-> val(sq[i])], {i \in 1..Len(sq) : keep(sq[i])})

save_transaction_tool(T, u, description, amount, category) ==
    IF amount <= 0 THEN [ret |-> "ERROR: Amount must be positive.", tables |-> T]
    ELSE IF category \in {"", "Unknown"}
    THEN [ret |-> "ERROR: Category is missing.", tables |-> T]
    ELSE
        LET named == {i \in 1..Len(T.categories) : T.categories[i].name = category}
            spent == SumSeq(T.transactions, LAMBDA r : r.amount,
                            LAMBDA r : r.category = category /\ r.user_id = u)
            over  == /\ named # {}
                     /\ spent + amount > T.categories[CHOOSE i \in named : TRUE].budget
            row   == [description |-> description, amount |-> amount,
                      category |-> category, user_id |-> u]
        IN  [ret |-> IF over THEN "SUCCESS: saved. WARNING: budget exceeded" ELSE "SUCCESS: saved.",
             tables |-> [T EXCEPT !.transactions = Append(@, row)]]

add_category_tool(T, u, name, budget) ==
    IF Strip(name) = "" THEN [ret |-> "ERROR: Category name is required.", tables |-> T]
    ELSE IF \E i \in 1..Len(T.categories) :
                /\ T.categories[i].name = Strip(name)
                /\ T.categories[i].user_id \in {u, NoUser}
    THEN [ret |-> "ERROR: Category already exists.", tables |-> T]
    ELSE IF \E i \in 1..Len(T.categories) : T.categories[i].name = Strip(name)
    THEN [ret |-> "ERROR: Failed to create category.", tables |-> T]
    ELSE [ret |-> "SUCCESS: Category created.",
          tables |-> [T EXCEPT !.categories =
                         Append(@, [name |-> Strip(name), budget |-> budget, user_id |-> u])]]

set_monthly_budget(T, u, amount) ==
    LET mine == {i \in 1..Len(T.user_settings) : T.user_settings[i].user_id = u}
    IN  [ret |-> "SUCCESS",
         tables |-> [T EXCEPT !.user_settings =
                        IF mine # {}
                        THEN [i \in 1..Len(@) |->
                                 IF i \in mine THEN [@[i] EXCEPT !.monthly_budget = amount]
                                 ELSE @[i]]
                        ELSE Append(@, [user_id |-> u, monthly_budget |-> amount])]]

\* update_transaction(id, {"amount": amount})
update_transaction(T, u, id, amount) ==
    [ret |-> "SUCCESS",
     tables |-> [T EXCEPT !.transactions =
                    [i \in 1..Len(@) |->
                        IF i = id /\ @[i].user_id = u THEN [@[i] EXCEPT !.amount = amount]
                        ELSE @[i]]]]

\* add_debt_tool with the adapter working
insert_debt(T, u, e) ==
    LET r == add_debt_tool(T.debts, u, e, "ok")
    IN  [ret |-> r.ret, tables |-> [T EXCEPT !.debts = r.ledger]]

\* SELECT * FROM transactions WHERE user_id = ? ORDER BY id DESC (without id)
get_all_transactions(T, u) ==
    LET mine == SelectSeq(T.transactions, LAMBDA r : r.user_id = u)
    IN  [i \in 1..Len(mine) |-> mine[Len(mine) + 1 - i]]

get_category_totals(T, u) ==
    LET mine == SelectSeq(T.transactions, LAMBDA r : r.user_id = u)
    IN  [c \in {mine[i].category : i \in 1..Len(mine)} |->
            SumSeq(mine, LAMBDA r : r.amount, LAMBDA r : r.category = c)]

get_dashboard_stats(T, u) ==
    LET total_spent == SumSeq(T.transactions, LAMBDA r : r.amount, LAMBDA r : r.user_id = u)
        settings == {i \in 1..Len(T.user_settings) : T.user_settings[i].user_id = u}
        total_budget ==
            IF settings # {}
            THEN T.user_settings[CHOOSE i \in settings : TRUE].monthly_budget
            ELSE SumSeq(T.categories, LAMBDA r : r.budget, LAMBDA r : TRUE)
        active_debts ==
            SumSeq(T.debts, LAMBDA r : r.amount,
                   LAMBDA r : r.creditor = "Me" /\ r.status = "unsettled" /\ r.user_id = u)
    IN  [total_spent |-> total_spent, budget |-> total_budget,
         remaining |-> total_budget - total_spent, active_debts |-> active_debts]

SqlQueries == {"SELECT * FROM transactions", "SELECT * FROM debts", "DELETE FROM debts"}

read_sql_query_tool(T, query) ==
    LET rows == IF query = "SELECT * FROM transactions" THEN T.transactions ELSE T.debts
    IN  IF query \notin {"SELECT * FROM transactions", "SELECT * FROM debts"}
        THEN [ret |-> "ERROR: Only SELECT queries are allowed.", rows |-> <<>>]
        ELSE IF rows = <<>> THEN [ret |-> "No results found.", rows |-> <<>>]
        ELSE [ret |-> "rows", rows |-> rows]

Now == Tables(transactions, categories, user_settings, ledger)

TenantInit ==
    /\ args \in {Request(<<"Me">>, <<"John">>, MaxTotal, "equal", EmptyShares, EmptyShares)}
    /\ user_id_ctx = "local_user"
    /\ ledger = <<>>
    /\ pc = "idle"
    /\ pending = <<>>
    /\ calls_made = 0
    /\ result = NoResult
    /\ emitted = <<>>
    /\ sink = <<>>
    /\ calls = 0
    /\ mark = 0
    /\ prev = NoCall
    /\ Quiet

\* the operation with result r ran in the context of user u; s is what the
\* same operation does to the tables only the observer has written
Ran(u, r, s) ==
    /\ calls < MaxOps
    /\ calls' = calls + 1
    /\ user_id_ctx' = u
    /\ reply' = [status |-> r.ret, body |-> "", touched |-> r.tables # Now]
    /\ transactions' = r.tables.transactions
    /\ categories' = r.tables.categories
    /\ user_settings' = r.tables.user_settings
    /\ ledger' = r.tables.debts
    /\ solo' = IF u = Observer THEN s.tables ELSE solo
    /\ UNCHANGED <<args, pc, pending, calls_made, result, emitted, sink, mark, prev, tasks,
                   cloud, request>>

SaveTransaction ==
    \E u \in TenantUsers, amount \in {0, 250}, category \in {"Dining", "Bike", "Unknown"} :
        Ran(u, save_transaction_tool(Now, u, "coffee", amount, category),
               save_transaction_tool(solo, u, "coffee", amount, category))

AddCategory ==
    \E u \in TenantUsers, name \in {"Bike", " "} :
        Ran(u, add_category_tool(Now, u, name, 100), add_category_tool(solo, u, name, 100))

SetMonthlyBudget ==
    \E u \in TenantUsers :
        Ran(u, set_monthly_budget(Now, u, 400), set_monthly_budget(solo, u, 400))

\* the observer's k-th own row has the same position among the rows only the
\* observer has written
UpdateTransaction ==
    \E u \in TenantUsers, id \in 1..MaxOps :
        LET own == Cardinality({i \in 1..id : i <= Len(transactions)
                                              /\ transactions[i].user_id = u})
            sid == IF id <= Len(transactions) /\ transactions[id].user_id = u
                   THEN own ELSE 0
        IN  Ran(u, update_transaction(Now, u, id, 70), update_transaction(solo, u, sid, 70))

RecordDebt ==
    \E u \in TenantUsers :
        LET e == [debtor |-> "John", creditor |-> "Me", amount |-> 2,
                  description |-> "dinner", status |-> "unsettled"]
        IN  Ran(u, insert_debt(Now, u, e), insert_debt(solo, u, e))

TenantNext ==
    SaveTransaction \/ AddCategory \/ SetMonthlyBudget \/ UpdateTransaction \/ RecordDebt

TenantSpec == TenantInit /\ [][TenantNext]_vars

\* ------------------------------------------------------- the HTTP endpoints
\* A request carries the X-Storage-Mode header and a bearer token, or none.
\* SUPABASE_DB_URL is set, so both stores can be opened.
Modes == {"local", "cloud"}
Tokens == {"none", "jwt(sub=user_A)", "jwt(no sub)", "garbage"}

\* get_current_user: the user id, or the HTTPException's status code
get_current_user(mode, token) ==
    IF token = "none"
    THEN (IF mode = "local" THEN [status |-> "200", user |-> "local_user"]
          ELSE [status |-> "401", user |-> ""])
    ELSE IF token = "jwt(sub=user_A)" THEN [status |-> "200", user |-> "user_A"]
    ELSE [status |-> "401", user |-> ""]

IsError(ret) ==
    ret \in {"ERROR: Amount must be positive.", "ERROR: Category is missing."}

StoreOf(mode) == IF mode = "cloud" THEN cloud ELSE Now

\* the handler's answer r = [status, touched, user, local, cloud] to request req
Served(req, r) ==
    /\ calls < MaxOps
    /\ calls' = calls + 1
    /\ request' = req
    /\ reply' = [status |-> r.status, body |-> req.endpoint, touched |-> r.touched]
    /\ user_id_ctx' = r.user
    /\ transactions' = r.local.transactions
    /\ categories' = r.local.categories
    /\ user_settings' = r.local.user_settings
    /\ ledger' = r.local.debts
    /\ cloud' = r.cloud
    /\ UNCHANGED <<args, pc, pending, calls_made, result, emitted, sink, mark, prev, tasks, solo>>

\* an endpoint with Depends(get_current_user): op(T, u) is the body of the
\* handler on the store T of the request's mode, after set_user_context(u)
Depends(req, op(_, _)) ==
    LET a == get_current_user(req.mode, req.token)
        r == op(StoreOf(req.mode), a.user)
    IN  IF a.status # "200"
        THEN [status |-> a.status, touched |-> FALSE, user |-> "local_user",
              local |-> Now, cloud |-> cloud]
        ELSE [status |-> r.status, touched |-> r.touched, user |-> a.user,
              local |-> IF req.mode = "cloud" THEN Now ELSE r.tables,
              cloud |-> IF req.mode = "cloud" THEN r.tables ELSE cloud]

Req(endpoint, mode, token) == [endpoint |-> endpoint, mode |-> mode, token |-> token]

read_root ==
    \E mode \in Modes, token \in Tokens :
        Served(Req("GET /", mode, token),
               [status |-> "200", touched |-> FALSE, user |-> "local_user",
                local |-> Now, cloud |-> cloud])

\* process_chat(user_id, message, storage_mode=...) does not match
\* agents.process_chat(message): the TypeError becomes a 500
chat_endpoint ==
    \E mode \in Modes, token \in Tokens :
        LET req == Req("POST /chat", mode, token)
        IN  Served(req, Depends(req,
                LAMBDA T, u : [status |-> "500", touched |-> FALSE, tables |-> T]))

\* the handlers that only read: get_all_transactions, get_category_totals,
\* get_dashboard_stats, analyze_spending_personality
ReadEndpoints == {"GET /transactions", "GET /insights", "GET /stats", "GET /analytics/personality"}

get_endpoint ==
    \E endpoint \in ReadEndpoints, mode \in Modes, token \in Tokens :
        LET req == Req(endpoint, mode, token)
        IN  Served(req, Depends(req,
                LAMBDA T, u : [status |-> "200", touched |-> TRUE, tables |-> T]))

update_budget_endpoint ==
    \E mode \in Modes, token \in Tokens :
        LET req == Req("POST /budget", mode, token)
        IN  Served(req, Depends(req,
                LAMBDA T, u : [status |-> "200", touched |-> TRUE,
                               tables |-> set_monthly_budget(T, u, 400).tables]))

create_transaction_endpoint ==
    \E mode \in Modes, token \in Tokens, amount \in {0, 250} :
        LET req == Req("POST /transactions", mode, token)
        IN  Served(req, Depends(req,
                LAMBDA T, u :
                    LET r == save_transaction_tool(T, u, "coffee", amount, "Dining")
                    IN  [status |-> IF IsError(r.ret) THEN "400" ELSE "200",
                         touched |-> ~IsError(r.ret), tables |-> r.tables]))

update_transaction_endpoint ==
    \E mode \in Modes, token \in Tokens :
        LET req == Req("PUT /transactions/1", mode, token)
        IN  Served(req, Depends(req,
                LAMBDA T, u : [status |-> "200", touched |-> TRUE,
                               tables |-> update_transaction(T, u, 1, 70).tables]))

\* migrate_data(from_mode, to_mode): no Depends(get_current_user); the rows
\* read in the context's user id are inserted without a user id
migrate_data ==
    \E mode \in Modes, token \in Tokens, from_mode \in Modes \cup {"usb"}, to_mode \in Modes :
        LET req  == Req("POST /migrate", mode, token)
            rows == get_all_transactions(StoreOf(from_mode), "local_user")
            copy == [i \in 1..Len(rows) |-> [rows[i] EXCEPT !.user_id = NoUser]]
            into == [StoreOf(to_mode) EXCEPT !.transactions = @ \o copy]
        IN  Served(req,
                IF from_mode \notin Modes
                THEN [status |-> "400", touched |-> FALSE, user |-> "local_user",
                      local |-> Now, cloud |-> cloud]
                ELSE IF from_mode = to_mode
                THEN [status |-> "200", touched |-> FALSE, user |-> "local_user",
                      local |-> Now, cloud |-> cloud]
                ELSE [status |-> "200", touched |-> TRUE, user |-> "local_user",
                      local |-> IF to_mode = "local" THEN into ELSE Now,
                      cloud |-> IF to_mode = "cloud" THEN into ELSE cloud])

HttpInit == TenantInit

HttpNext ==
    \/ read_root
    \/ chat_endpoint
    \/ get_endpoint
    \/ update_budget_endpoint
    \/ create_transaction_endpoint
    \/ update_transaction_endpoint
    \/ migrate_data

HttpSpec == HttpInit /\ [][HttpNext]_vars

\* ============================================================ properties
BagOf(sq) == [e \in Range(sq) |-> Cardinality({i \in 1..Len(sq) : sq[i] = e})]

Finished == calls >= 1 /\ pc = "idle"
AllOk(sk) == \A k \in 1..Len(sk) : sk[k] = "ok"
RowsAdded == Len(ledger) - mark

\* the names written in the two lists, before the default creditor is added
GivenNames(a) == Range(ParseNames(a.creditors)) \cup Range(ParseNames(a.debtors))

\* the participant an edge links Me to
Other(e) == IF e.debtor = ME_NAME THEN e.creditor ELSE e.debtor

\* C1: every edge handed to add_debt_tool, or about to be, has Me as exactly
\* one endpoint and another participant of the call as the other endpoint.
C1_SelfOnlyEdges ==
    \A e \in Range(emitted) \cup Range(pending) :
        /\ (e.debtor = ME_NAME) # (e.creditor = ME_NAME)
        /\ {e.debtor, e.creditor} \subseteq participantSet(args)

\* C1 witness: an edge was emitted although a third participant, linked to
\* nobody, has a non-zero net position.
C1_Witness ==
    /\ emitted # <<>>
    /\ \E p \in participantSet(args) \ {ME_NAME} :
          /\ net(args)[p] # 0
          /\ \A e \in Range(emitted) \cup Range(pending) : Other(e) # p

\* C2 (the claim as stated): in a multi-edge call a failed add_debt_tool call is
\* the last one of the call, and the call ends with an ERROR result.
C2_SinkFailurePropagates ==
    Len(emitted) + Len(pending) >= 2 =>
        \A k \in 1..Len(sink) :
            sink[k] # "ok" => /\ k = Len(sink)
                              /\ pc = "idle"
                              /\ result.tag = "ERROR"

\* C3 (the claim as stated): the count in the SUCCESS summary is the number of
\* rows the call added to the ledger.
C3_CountIsRowsAdded ==
    (Finished /\ result.tag = "SUCCESS") => result.n = RowsAdded

\* C4 (the claim as stated): with paid_shares omitted and Me a participant, the
\* net positions of a call that passes validation sum to zero.
C4_ZeroSumNet ==
    (IsEmptyShares(args.paid_shares) /\ FairCheck(args) = Proceed) =>
        SumOver(net(args), participantSet(args)) = 0

\* C5 (the claim as stated): every amount handed to add_debt_tool exceeds 0.01.
C5_AmountAboveCent ==
    \A e \in Range(emitted) : e.amount > 1

\* C5 (amended): every edge handed to add_debt_tool has an unrounded share above
\* 0.01 and an amount, the share rounded to cents, of at least 0.01.
C5_ShareAboveCent ==
    \A e \in Range(emitted) :
        /\ ShareNum(net(args), Other(e)) > ShareDen(net(args))
        /\ e.amount >= 1

\* C5 witness: an edge of exactly 0.01 was handed to add_debt_tool.
C5_Witness ==
    \E e \in Range(emitted) : e.amount = 1

\* C6 (the claim as stated): when Me is not among the names written in the two
\* lists the call returns NotInvolved and calls add_debt_tool never.
C6_NotNamedNotInvolved ==
    (Finished /\ ME_NAME \notin GivenNames(args)) =>
        /\ result = InfoNotInvolved
        /\ emitted = <<>>
        /\ RowsAdded = 0

\* C6 (amended): the same when, in addition, the creditor list names somebody
\* (an empty creditor list stands for Me), whatever the split mode and the
\* share specifications are.
C6_NotParticipantNotInvolved ==
    (calls >= 1 /\ ME_NAME \notin GivenNames(args) /\ ParseNames(args.creditors) # <<>>) =>
        /\ pc = "idle"
        /\ result = InfoNotInvolved
        /\ emitted = <<>>
        /\ RowsAdded = 0

\* C6 witness: NotInvolved was returned for a request whose split mode is
\* invalid or whose share specification cannot be parsed.
C6_Witness ==
    /\ Finished
    /\ result = InfoNotInvolved
    /\ \/ Lower(args.split_mode) \notin {"equal", "custom"}
       \/ ShareSpecRaises(args.fair_shares)
       \/ ShareSpecRaises(args.paid_shares)

\* the names that have a name:value entry in a share specification
EntryNames(spec) ==
    {Strip(ShareParts(spec)[i][1]) :
        i \in {j \in 1..Len(ShareParts(spec)) : Len(ShareParts(spec)[j]) = 2}}

ValidationFailure(a) ==
    \/ Lower(a.split_mode) \notin {"equal", "custom"}
    \/ /\ Lower(a.split_mode) = "custom"
       /\ \/ IsEmptyShares(a.fair_shares)
          \/ \E p \in participantSet(a) : p \notin EntryNames(a.fair_shares)

\* C7 (the claim as stated): when Me participates, a validation failure yields
\* an ERROR result and no add_debt_tool call.
C7_ValidationError ==
    (Finished /\ ME_NAME \in participantSet(args) /\ ValidationFailure(args)) =>
        /\ result.tag = "ERROR"
        /\ emitted = <<>>
        /\ RowsAdded = 0

\* C8 (the claim as stated): no call ends with an exception.
C8_NoUncaughtException ==
    result.tag # "EXCEPTION"

\* C9: two successive calls with the same arguments, every insert succeeding,
\* add the same rows twice: 2n rows for the n edges of the request.
C9_NotIdempotent ==
    (calls >= 2 /\ pc = "idle" /\ result.tag = "SUCCESS" /\ prev.result.tag = "SUCCESS"
        /\ AllOk(sink) /\ AllOk(prev.sink)) =>
        /\ Len(ledger) - prev.mark = 2 * Len(Edges(args))
        /\ result.n = Len(Edges(args))
        /\ SubSeq(ledger, prev.mark + 1, mark) = SubSeq(ledger, mark + 1, Len(ledger))

\* C9 witness: a request with two edges was recorded twice.
C9_Witness ==
    /\ calls >= 2 /\ pc = "idle"
    /\ result.tag = "SUCCESS" /\ prev.result.tag = "SUCCESS"
    /\ AllOk(sink) /\ AllOk(prev.sink)
    /\ result.n = 2
    /\ Len(ledger) - prev.mark = 4

\* the request with each list replaced by its distinct names in sorted order
Canonical(a) ==
    [a EXCEPT !.creditors = sorted(Range(ParseNames(a.creditors))),
              !.debtors = sorted(Range(ParseNames(a.debtors)))]

\* what a call returns and emits when every insert succeeds
Outcome(a) ==
    LET early == Precheck(a)
    IN  IF early # Proceed THEN early ELSE Success(Len(Edges(a)))

Emits(a) == IF Precheck(a) # Proceed THEN <<>> ELSE Edges(a)

\* C10 (the claim as stated): the call returns and emits what the call with
\* the deduplicated, sorted lists returns and emits.
C10_SetSemantics ==
    (Finished /\ AllOk(sink)) =>
        /\ result = Outcome(Canonical(args))
        /\ BagOf(emitted) = BagOf(Emits(Canonical(args)))

\* C11: a call whose creditors string holds no name returns and emits what
\* the same call with creditors = "Me" returns and emits.
C11_EmptyCreditorsIsMe ==
    (Finished /\ AllOk(sink) /\ ParseNames(args.creditors) = <<>>) =>
        /\ result = Outcome([args EXCEPT !.creditors = <<"Me">>])
        /\ emitted = Emits([args EXCEPT !.creditors = <<"Me">>])

\* C11 witness: a call with a blank creditors string recorded an edge towards
\* Me under an explicit share specification.
C11_Witness ==
    /\ Finished /\ AllOk(sink)
    /\ ParseNames(args.creditors) = <<>>
    /\ ~IsEmptyShares(args.paid_shares)
    /\ \E e \in Range(emitted) : e.creditor = ME_NAME

\* the spellings of the self alias other than the canonical one
MeSpellings == {"me", "ME", "mE"}

\* the string with every field "Me" written v
Respell(fields, v) == [i \in 1..Len(fields) |-> IF fields[i] = "Me" THEN v ELSE fields[i]]

\* C12: writing Me in another case in the creditors and debtors strings
\* changes neither the result nor the edges, and no edge names the self
\* endpoint otherwise than "Me".
C12_CaseInsensitiveSelf ==
    /\ (Finished /\ AllOk(sink) /\ "Me" \in Range(args.creditors) \cup Range(args.debtors)) =>
          \A v \in MeSpellings :
              LET b == [args EXCEPT !.creditors = Respell(args.creditors, v),
                                    !.debtors = Respell(args.debtors, v)]
              IN  result = Outcome(b) /\ emitted = Emits(b)
    /\ \A e \in Range(emitted \o pending) : {e.debtor, e.creditor} \cap MeSpellings = {}

\* C12 witness: a call naming the self identity "ME" or "mE" recorded an edge.
C12_Witness ==
    /\ Finished /\ AllOk(sink)
    /\ emitted # <<>>
    /\ (Range(args.creditors) \cup Range(args.debtors)) \cap {"ME", "mE"} # {}

\* custom split, paid_shares omitted, and a fair_shares string whose fields
\* all parse and give every participant an entry
CoveringCustom(a) ==
    /\ Lower(a.split_mode) = "custom"
    /\ IsEmptyShares(a.paid_shares)
    /\ ~IsEmptyShares(a.fair_shares)
    /\ ~ShareSpecRaises(a.fair_shares)
    /\ participantSet(a) \subseteq DOMAIN ShareDict(a.fair_shares)

\* C13 (the claim as stated): such a call returns AlreadySettled and calls
\* add_debt_tool never.
C13_CustomDefaultSettled ==
    (Finished /\ CoveringCustom(args)) =>
        /\ result = InfoSettled
        /\ emitted = <<>>
        /\ RowsAdded = 0

\* C13 (amended): it does so when Me is one of the participants.
C13_CustomDefaultSettledForMe ==
    (calls >= 1 /\ CoveringCustom(args) /\ ME_NAME \in participantSet(args)) =>
        /\ pc = "idle"
        /\ result = InfoSettled
        /\ emitted = <<>>
        /\ RowsAdded = 0

\* C13 witness: AlreadySettled was returned for fair shares that do not sum
\* to total_amount.
C13_Witness ==
    /\ Finished /\ CoveringCustom(args)
    /\ result = InfoSettled
    /\ Cardinality(participantSet(args)) >= 2
    /\ SumOver(ShareDict(args.fair_shares), participantSet(args)) # args.total_amount * Scale

\* C14 (the claim as stated): a SUCCESS summary reports at least one edge, and
\* a call that added no row does not return the SUCCESS summary.
C14_SuccessMeansEdges ==
    (Finished /\ result.tag = "SUCCESS") => (result.n >= 1 /\ RowsAdded >= 1)

\* the distinct people a request names, the self alias read in any case and
\* Me standing for an empty creditors string
DistinctPeople(a) ==
    LET person(f) == IF Lower(Strip(f)) = "me" THEN "Me" ELSE Strip(f)
        cs == {person(f) : f \in Range(a.creditors)} \ {""}
        ds == {person(f) : f \in Range(a.debtors)} \ {""}
    IN  (IF cs = {} THEN {"Me"} ELSE cs) \cup ds

\* C15: in equal mode a call that Me takes part in gives each of the n
\* distinct participants the fair share total_amount / n, and the fair
\* shares sum to total_amount.
C15_EqualFairShares ==
    (Finished /\ Lower(args.split_mode) = "equal" /\ result # InfoNotInvolved) =>
        /\ ME_NAME \in DistinctPeople(args)
        /\ DOMAIN fair(args) = DistinctPeople(args)
        /\ \A p \in DistinctPeople(args) :
              fair(args)[p] * Cardinality(DistinctPeople(args)) = args.total_amount * Scale
        /\ SumOver(fair(args), DistinctPeople(args)) = args.total_amount * Scale

\* C15 witness: fair shares were computed for lists that repeat a participant
\* and spell the self alias in lower case.
C15_Witness ==
    /\ Finished /\ Lower(args.split_mode) = "equal" /\ result # InfoNotInvolved
    /\ "me" \in Range(args.creditors) \cup Range(args.debtors)
    /\ Cardinality(participantSet(args)) >= 2
    /\ Len(creditor_list(args) \o debtor_list(args)) > Cardinality(participantSet(args))

\* the current or last call got as far as edge generation
EdgeGeneration ==
    /\ calls >= 1
    /\ pc = "loop" \/ result.tag = "SUCCESS" \/ result = Raised("AdapterError")

\* the add_debt_tool call for a debt between Me and p
DebtCall(a, debtor, creditor, amount) ==
    [debtor |-> debtor, creditor |-> creditor, amount |-> amount,
     description |-> a.description, status |-> a.status]

NoRepeatedParty(sq) ==
    \A i, j \in 1..Len(sq) : i # j => Other(sq[i]) # Other(sq[j])

\* { (p, Me, round(net_me * (-net[p]) / total_owing, 2)) :
\*       p # Me, net[p] < 0, share > 0.01 }
EdgesTowardsMe(a, nt) ==
    LET mine  == Get(nt, ME_NAME)
        owing == SumOver([p \in DOMAIN nt |-> -nt[p]], {p \in DOMAIN nt : nt[p] < 0})
    IN  {DebtCall(a, p, ME_NAME, Round(mine * (-nt[p]), owing * Scale)) :
            p \in {q \in DOMAIN nt \ {ME_NAME} :
                      nt[q] < 0 /\ mine * (-nt[q]) > owing * Scale}}

\* { (Me, p, round((-net_me) * net[p] / total_credit, 2)) :
\*       p # Me, net[p] > 0, share > 0.01 }
EdgesFromMe(a, nt) ==
    LET mine   == Get(nt, ME_NAME)
        credit == SumOver(nt, {p \in DOMAIN nt : nt[p] > 0})
    IN  {DebtCall(a, ME_NAME, p, Round((-mine) * nt[p], credit * Scale)) :
            p \in {q \in DOMAIN nt \ {ME_NAME} :
                      nt[q] > 0 /\ (-mine) * nt[q] > credit * Scale}}

\* C16: when Me is a net creditor and someone owes, the edges the call hands
\* to add_debt_tool are exactly the edges (p, Me, round(share, 2)) of the
\* participants p # Me with net[p] < 0 and share > 0.01, one edge for each;
\* a call cut short by an exception of add_debt_tool has handed over some of
\* them and nothing else.
C16_NetCreditorEdges ==
    EdgeGeneration =>
        LET nt       == net(args)
            expected == EdgesTowardsMe(args, nt)
        IN  net_me(nt) > 0 =>
              /\ Range(emitted) \subseteq expected
              /\ NoRepeatedParty(emitted \o pending)
              /\ result.tag # "EXCEPTION" =>
                    /\ Range(emitted \o pending) = expected
                    /\ Len(emitted \o pending) = Cardinality(expected)

\* C16 witness: a call with Me as net creditor returned after two edges.
C16_Witness ==
    /\ Finished /\ result.tag = "SUCCESS"
    /\ net_me(net(args)) > 0
    /\ Len(emitted) = 2
    /\ \A i \in 1..2 : emitted[i].creditor = ME_NAME

\* C17: when Me is a net debtor and someone is owed, the edges the call hands
\* to add_debt_tool are exactly the edges (Me, p, round(share, 2)) of the
\* participants p # Me with net[p] > 0 and share > 0.01, one edge for each;
\* a call cut short by an exception of add_debt_tool has handed over some of
\* them and nothing else.
C17_NetDebtorEdges ==
    EdgeGeneration =>
        LET nt       == net(args)
            expected == EdgesFromMe(args, nt)
        IN  net_me(nt) < 0 =>
              /\ Range(emitted) \subseteq expected
              /\ NoRepeatedParty(emitted \o pending)
              /\ result.tag # "EXCEPTION" =>
                    /\ Range(emitted \o pending) = expected
                    /\ Len(emitted \o pending) = Cardinality(expected)

\* C17 witness: a call with Me as net debtor returned after two edges.
C17_Witness ==
    /\ Finished /\ result.tag = "SUCCESS"
    /\ net_me(net(args)) < 0
    /\ Len(emitted) = 2
    /\ \A i \in 1..2 : emitted[i].debtor = ME_NAME

\* the participants on the side opposite to Me
Opposite(nt) ==
    {p \in DOMAIN nt \ {ME_NAME} :
        IF Get(nt, ME_NAME) > 0 THEN nt[p] < 0 ELSE nt[p] > 0}

AmountSum(sq) == SumOver([i \in 1..Len(sq) |-> sq[i].amount], 1..Len(sq))

\* C18: in a call that reaches edge generation the unrounded shares of the
\* participants opposite to Me sum to |net_me|, and the amounts of the edges
\* the call hands to add_debt_tool sum to |net_me| give or take 0.01 for each
\* participant opposite to Me.
C18_SharesSumToNetMe ==
    EdgeGeneration =>
        LET nt  == net(args)
            opp == Opposite(nt)
        IN  /\ SumOver([p \in opp |-> ShareNum(nt, p)], opp) * Scale
                   = Abs(net_me(nt)) * ShareDen(nt)
            /\ result.tag # "EXCEPTION" =>
                  Abs(AmountSum(emitted \o pending) * Scale - Abs(net_me(nt)))
                      <= Scale * Cardinality(opp)

\* C18 witness: a call returned after handing over edges whose amounts do not
\* add up to |net_me|, one of two shares having been dropped or rounded.
C18_Witness ==
    /\ Finished /\ result.tag = "SUCCESS" /\ emitted # <<>>
    /\ Cardinality(Opposite(net(args))) = 2
    /\ AmountSum(emitted) * Scale # Abs(net_me(net(args)))

\* equal split, paid_shares omitted, one creditor among n >= 2 participants
\* one of whom is Me, the fair share above the 0.01 threshold
SoleCreditorCase(a) ==
    /\ Lower(a.split_mode) = "equal"
    /\ IsEmptyShares(a.paid_shares)
    /\ Cardinality(Range(creditor_list(a))) = 1
    /\ Cardinality(DistinctPeople(a)) >= 2
    /\ ME_NAME \in DistinctPeople(a)
    /\ a.total_amount > Cardinality(DistinctPeople(a))

\* C19: in that case a call that returns has handed to add_debt_tool, when
\* the creditor is Me, one edge per other participant, each owing Me
\* round(total_amount / n, 2); and when the creditor is c # Me, the single
\* edge of Me owing c round(total_amount / n, 2).
C19_SoleCreditorEdges ==
    (Finished /\ result.tag # "EXCEPTION" /\ SoleCreditorCase(args)) =>
        LET n   == Cardinality(DistinctPeople(args))
            c   == creditor_list(args)[1]
            amt == Round(args.total_amount, n)
        IN  IF c = ME_NAME
            THEN /\ Len(emitted) = n - 1
                 /\ Range(emitted) =
                        {DebtCall(args, p, ME_NAME, amt) : p \in DistinctPeople(args) \ {ME_NAME}}
            ELSE emitted = <<DebtCall(args, ME_NAME, c, amt)>>

\* the row a successful add_debt_tool call inserts for edge e
RowOf(e) ==
    [debtor |-> e.debtor, creditor |-> e.creditor, amount |-> e.amount,
     description |-> e.description, status |-> e.status, user_id |-> user_id_ctx]

\* rows lo+1..hi of the ledger are the rows of the edges em whose insert
\* succeeded according to sk, in the order the edges were handed over
Persisted(em, sk, lo, hi) ==
    LET done == {i \in 1..Len(em) : sk[i] = "ok"}
    IN  /\ hi - lo = Cardinality(done)
        /\ hi <= Len(ledger)
        /\ \A i \in done :
              ledger[lo + Cardinality({j \in done : j <= i})] = RowOf(em[i])

\* C20: whatever the sink does on a later edge, the rows of the edges already
\* persisted by a call stay in the ledger, during the rest of the call, after
\* it ends and through the next call; nothing is deleted or rolled back.
C20_NoRollback ==
    /\ Persisted(emitted, sink, mark, Len(ledger))
    /\ Persisted(prev.emitted, prev.sink, prev.mark, mark)

\* C20 witness: a call ended with its first edge persisted and its second
\* edge failed, a partially persisted edge set.
C20_Witness ==
    /\ Finished
    /\ Len(sink) = 2 /\ sink[1] = "ok" /\ sink[2] # "ok"
    /\ RowsAdded = 1
    /\ ledger[Len(ledger)] = RowOf(emitted[1])

\* C21: no step of the engine or of the tools changes or removes a row the
\* ledger already holds, and whatever the ledger held when a call started,
\* the call returns and emits what its arguments alone determine.
C21_SelfContainedAppendOnly ==
    [][ /\ Len(ledger') >= Len(ledger)
        /\ SubSeq(ledger', 1, Len(ledger)) = ledger
        /\ (calls' >= 1 /\ pc' = "idle" /\ AllOk(sink')) =>
              (result' = Outcome(args') /\ emitted' = Emits(args')) ]_vars

\* C21 witness: a call that started on a ledger holding a debt of Me to John
\* recorded John's debt to Me next to it.
C21_Witness ==
    /\ Finished /\ AllOk(sink) /\ calls = 1
    /\ mark > 0 /\ emitted # <<>>
    /\ ledger[1] = OldDebtFromMe
    /\ emitted[1].creditor = ME_NAME /\ emitted[1].debtor = "John"

\* the rows request i inserts when it runs alone and the sink treats its
\* k-th edge as it did here
AloneRows(i) ==
    LET t  == tasks[i]
        es == Emits(t.args)
        ok == {k \in 1..Len(t.sink) : t.sink[k] = "ok"}
    IN  [r \in {[debtor |-> es[k].debtor, creditor |-> es[k].creditor,
                 amount |-> es[k].amount, description |-> es[k].description,
                 status |-> es[k].status, user_id |-> t.user] : k \in ok} |->
            Cardinality({k \in ok : es[k].debtor = r.debtor /\ es[k].creditor = r.creditor
                                      /\ es[k].amount = r.amount})]

BagCount(b, r) == IF r \in DOMAIN b THEN b[r] ELSE 0

\* C22: when two calls in different request contexts have both ended, however
\* their add_debt_tool calls were interleaved, the ledger holds exactly the
\* rows each would have inserted alone, each under its own user_id.
C22_ContextsDoNotInteract ==
    (\A i \in 1..Len(tasks) : tasks[i].pc = "done") =>
        LET all == BagOf(ledger)
            a   == AloneRows(1)
            b   == AloneRows(2)
        IN  /\ DOMAIN all = DOMAIN a \cup DOMAIN b
            /\ \A r \in DOMAIN all : all[r] = BagCount(a, r) + BagCount(b, r)
            /\ \A r \in DOMAIN a : r.user_id = TaskUsers[1]
            /\ \A r \in DOMAIN b : r.user_id = TaskUsers[2]
            /\ \A i \in 1..Len(tasks) :
                  \/ tasks[i].emitted = Emits(tasks[i].args)
                  \/ tasks[i].sink[Len(tasks[i].sink)] = "no_adapter"

\* C22 witness: both calls ended and a row of one user lies between two rows
\* of the other.
C22_Witness ==
    /\ Len(tasks) = 2
    /\ \A i \in 1..2 : tasks[i].pc = "done"
    /\ \E i, j, k \in 1..Len(ledger) :
          /\ i < j /\ j < k
          /\ ledger[i].user_id = ledger[k].user_id
          /\ ledger[j].user_id # ledger[i].user_id

\* Me takes part, the split mode is known and both share specifications parse
\* and cover the participants: the call gets as far as the net positions
NetsComputed(a) ==
    /\ FairCheck(a) = Proceed
    /\ IsEmptyShares(a.paid_shares) \/ ~ShareSpecRaises(a.paid_shares)

\* C23: a call whose |net_me| is below 1e-6 returns AlreadySettled; one with
\* net_me > 0 and nobody in deficit returns NoOneOwesSelf; one with net_me < 0
\* and nobody in surplus returns SelfOwesNoOne; none of them calls
\* add_debt_tool.
C23_NothingToAllocate ==
    (Finished /\ NetsComputed(args)) =>
        LET nt      == net(args)
            mine    == Get(nt, ME_NAME)
            settled == Abs(mine) * 10000 < Scale
            owing   == SumOver([p \in DOMAIN nt |-> -nt[p]], {p \in DOMAIN nt : nt[p] < 0})
            credit  == SumOver(nt, {p \in DOMAIN nt : nt[p] > 0})
        IN  /\ settled => (result = InfoSettled /\ emitted = <<>> /\ RowsAdded = 0)
            /\ (~settled /\ mine > 0 /\ owing <= 0) =>
                  (result = InfoNoOneOwes /\ emitted = <<>> /\ RowsAdded = 0)
            /\ (~settled /\ mine < 0 /\ credit <= 0) =>
                  (result = InfoMeOwesNoOne /\ emitted = <<>> /\ RowsAdded = 0)

\* C23 witness: a call in which Me paid more than the fair share and nobody
\* paid less than theirs ended with NoOneOwesSelf.
C23_Witness ==
    /\ Finished /\ NetsComputed(args)
    /\ Get(net(args), ME_NAME) > 0
    /\ \A p \in DOMAIN net(args) : net(args)[p] >= 0
    /\ result = InfoNoOneOwes

\* the share specification with every entry name that spells the self
\* identity written "Me"
CanonicalShares(spec) ==
    [i \in 1..Len(spec) |->
        IF Len(spec[i]) = 2 /\ Lower(Strip(spec[i][1])) = "me"
        THEN <<"Me", spec[i][2]>> ELSE spec[i]]

\* C24: a call whose fair_shares or paid_shares name the self identity in
\* another case returns and emits what the call with those entries written
\* "Me" returns and emits.
C24_SelfAliasInShares ==
    (Finished /\ AllOk(sink)) =>
        LET b == [args EXCEPT !.fair_shares = CanonicalShares(args.fair_shares),
                              !.paid_shares = CanonicalShares(args.paid_shares)]
        IN  result = Outcome(b) /\ emitted = Emits(b)

\* what the operations of user u return on tables T
View(T, u) ==
    [transactions |-> get_all_transactions(T, u),
     totals       |-> get_category_totals(T, u),
     stats        |-> get_dashboard_stats(T, u),
     sql          |-> [q \in SqlQueries |-> read_sql_query_tool(T, q)],
     new_category |-> add_category_tool(T, u, "Bike", 100).ret]

\* C25: whatever the other user has done, every operation of the observing
\* user returns what it returns on the tables only the observer has written.
C25_TenantIsolation == View(Now, Observer) = View(solo, Observer)

\* C26: a direct add_debt_tool call with an amount <= 0 returns ERROR and
\* inserts nothing; every row of the ledger has a positive amount, and so
\* has every edge record_group_debts passes to add_debt_tool.
C26_PositiveAmounts ==
    /\ \A i \in 1..Len(ledger) : ledger[i].amount > 0
    /\ \A i \in 1..Len(emitted \o pending) : (emitted \o pending)[i].amount > 0
    /\ reply.body = "add_debt_tool(amount <= 0)" =>
           (reply.status = "ERROR" /\ ~reply.touched)

\* a rejected direct call after a call of record_group_debts that recorded an edge
C26_Witness ==
    /\ reply.body = "add_debt_tool(amount <= 0)" /\ reply.status = "ERROR"
    /\ Finished /\ AllOk(sink) /\ emitted # <<>>
    /\ Len(ledger) >= 2

\* C27: a request in cloud mode without a bearer token gets 401 and no
\* handler reads or writes a store for it; in local mode without a token the
\* request is served as local_user.
C27_CloudNeedsToken ==
    /\ (request.mode = "cloud" /\ request.token = "none" /\ request.endpoint # "") =>
           (~reply.touched /\ (request.endpoint # "GET /" => reply.status = "401"))
    /\ (request.mode = "local" /\ request.token = "none" /\ request.endpoint # "") =>
           (reply.status # "401" /\ user_id_ctx = "local_user")

\* the comma-separated string s with field f added / with field i removed
WithField(s, f) == IF s = <<"">> THEN <<f>> ELSE Append(s, f)
WithoutField(s, i) ==
    IF Len(s) = 1 THEN <<"">>
    ELSE [k \in 1..(Len(s) - 1) |-> IF k < i THEN s[k] ELSE s[k + 1]]

\* the requests that differ from a by one field moved to the other list
Moves(a) ==
    {[a EXCEPT !.creditors = WithoutField(a.creditors, i),
               !.debtors = WithField(a.debtors, a.creditors[i])] :
        i \in {k \in 1..Len(a.creditors) : Strip(a.creditors[k]) # ""}}
    \cup
    {[a EXCEPT !.debtors = WithoutField(a.debtors, i),
               !.creditors = WithField(a.creditors, a.debtors[i])] :
        i \in {k \in 1..Len(a.debtors) : Strip(a.debtors[k]) # ""}}

\* C28 as stated: with paid_shares given, moving a name from one list to
\* the other changes neither the result nor the emitted edges.
C28_MoveBetweenLists ==
    (Finished /\ AllOk(sink) /\ ~IsEmptyShares(args.paid_shares)) =>
        \A b \in Moves(args) : result = Outcome(b) /\ emitted = Emits(b)

\* C28 amended: the same for every move between two requests that both name
\* a creditor, and for every move when Me is among the names given.
C28_MoveKeepingCreditors ==
    (Finished /\ AllOk(sink) /\ ~IsEmptyShares(args.paid_shares)) =>
        \A b \in Moves(args) :
            (\/ ParseNames(args.creditors) # <<>> /\ ParseNames(b.creditors) # <<>>
             \/ ME_NAME \in GivenNames(args)) =>
                (result = Outcome(b) /\ emitted = Emits(b))

\* edges were recorded for a request whose creditor can move to the debtors
\* and whose debtor can move to the creditors
C28_Witness ==
    /\ Finished /\ AllOk(sink) /\ ~IsEmptyShares(args.paid_shares)
    /\ emitted # <<>>
    /\ \E b \in Moves(args) : ParseNames(b.creditors) = <<>>
    /\ \E b \in Moves(args) : Len(ParseNames(b.creditors)) = 2

\* C29: a finished custom-mode call returned, and emitted, what the same
\* request returns and emits with any other total_amount.
C29_CustomIgnoresTotal ==
    (Finished /\ AllOk(sink) /\ Lower(args.split_mode) = "custom") =>
        \A t \in 0..(MaxTotal + 1) :
            LET b == [args EXCEPT !.total_amount = t]
            IN  result = Outcome(b) /\ emitted = Emits(b)

\* a custom-mode call that recorded an edge
C29_Witness ==
    /\ Finished /\ AllOk(sink) /\ Lower(args.split_mode) = "custom"
    /\ ~IsEmptyShares(args.fair_shares)
    /\ emitted # <<>> /\ RowsAdded = Len(emitted)

\* C30: with paid_shares omitted, a finished call in which Me takes part and
\* that returned neither an error nor an exception returned AlreadySettled
\* or the Recorded summary.
C30_DefaultPaidOutcomes ==
    (/\ Finished /\ AllOk(sink)
     /\ IsEmptyShares(args.paid_shares)
     /\ args.total_amount > 0
     /\ ME_NAME \in participantSet(args)
     /\ result.tag \notin {"ERROR", "EXCEPTION"}) =>
        (result = InfoSettled \/ result.tag = "SUCCESS")

====
